---------------------------- MODULE Spec2Model ----------------------------
(***************************************************************************)
(* Room-scoped real-time relay of the bingo server.  The repository holds  *)
(* three server variants, all modelled here and selected by `variant`:     *)
(*   "v1"  src/server.ts lines 1-351     (socket.io, first variant)        *)
(*   "v2"  src/server.ts lines 352-1053  (socket.io, second variant)       *)
(*   "ws"  src/unnamed/part_000          (raw WebSocket server)            *)
(* Time is in milliseconds, as Date.now() gives it.                        *)
(***************************************************************************)
EXTENDS Integers, Sequences, FiniteSets, TLC

(***************************************************************************)
(* Bounds of the model and the small input sets.                           *)
(***************************************************************************)
MaxJoins == 2
MaxCalls == 2
MaxAdvance == 2
MaxLongCalls == 102

Variants == {"v1", "v2", "ws"}
Conns == {1, 2, 3}
GameIds == {"g1", "g2"}
Names == {"ann", "bob"}
Numbers == {7, 8}

NoConn == 0
NoGameId == "none"
NoName == "undefined"
NoTime == -1

NoGame == [absent |-> TRUE]
NoSession == [absent |-> TRUE]
NoWinner == [absent |-> TRUE]
NoEvent == [type |-> "none", conn |-> NoConn, gameId |-> NoGameId]

(***************************************************************************)
(* Program constants.                                                      *)
(***************************************************************************)
GraceMs == 5 * 60 * 1000
SweepIntervalMs2 == 30 * 60 * 1000
StaleMs2 == 2 * 60 * 60 * 1000
SweepIntervalMs3 == 10 * 60 * 1000
StaleMs3 == 60 * 60 * 1000
MaxStored == 100
KeepStored == 50
PayloadLast == 10

VARIABLES
  variant,      \* which server variant runs
  now,          \* Date.now()
  advances,     \* number of time advances so far (bounded by MaxAdvance)
  ws,           \* transport state of each connection: NEW, OPEN, CLOSING, CLOSED
  activeGames,  \* Room Directory: gameId -> Game Record or NoGame
  registry,     \* connectedPlayers / activePlayers: connection -> session or NoSession
  rooms,        \* socket.io room membership (socket.join), v1 and v2 only
  timers,       \* pending grace timers of v2, in scheduling order
  nextSweep,    \* due time of the next idle sweep (setInterval), v2 and ws
  out,          \* messages delivered by the last step, in emission order
  ev,           \* the event handled by the last step
  everJoined,   \* history: gameId -> connections that sent join-game for it
  joins,        \* history: connection -> number of join-game events it sent
  submitted,    \* history: gameId -> numbers of the call-number events of its callers
  foreign,      \* history: gameId -> some call-number came from a non-host
  lastMut,      \* history: gameId -> time of the latest mutation of the room
  usedIds       \* game identifiers seen so far

vars == <<variant, now, advances, ws, activeGames, registry, rooms, timers,
          nextSweep, out, ev, everJoined, joins, submitted, foreign, lastMut,
          usedIds>>

hist == <<everJoined, joins, submitted, foreign, lastMut, usedIds>>

(***************************************************************************)
(* Sequence helpers.                                                       *)
(***************************************************************************)
Range(s) == {s[i] : i \in 1..Len(s)}

RECURSIVE SetToSeq(_)
SetToSeq(S) ==
  IF S = {} THEN <<>>
  ELSE LET m == CHOOSE x \in S : \A y \in S : x <= y
       IN <<m>> \o SetToSeq(S \ {m})

\* mutant: slice(0, k), the first k elements
SliceFirst(s, k) ==
  IF Len(s) <= k THEN s ELSE SubSeq(s, 1, k)

\* Array.prototype.slice(-k): the last k elements (all of them when shorter)
SliceLast(s, k) ==
  IF Len(s) <= k THEN s ELSE SubSeq(s, Len(s) - k + 1, Len(s))

\* mutant: the filter keeps every entry
FilterOutNothing(players, c) == players

\* Array.prototype.filter(p => p.id !== c)
FilterOut(players, c) == SelectSeq(players, LAMBDA p : p.id # c)

\* Array.prototype.findIndex(p => p.id === c), 0 for -1
FindIndex(players, c) ==
  IF \E i \in 1..Len(players) : players[i].id = c
  THEN CHOOSE i \in 1..Len(players) :
         players[i].id = c /\ \A j \in 1..(i - 1) : players[j].id # c
  ELSE 0

Exists(g) == activeGames[g] # NoGame
Roster(g) == IF Exists(g) THEN activeGames[g].players ELSE <<>>
RosterIds(g) == {Roster(g)[i].id : i \in 1..Len(Roster(g))}


(***************************************************************************)
(* Input enumeration: identifiers are opaque, so connections are accepted  *)
(* in the order 1, 2, 3 and a game identifier not seen before is always    *)
(* the first unused one of GameIdOrder.                                    *)
(***************************************************************************)
GameIdOrder == <<"g1", "g2">>

FreshIds ==
  {GameIdOrder[i] : i \in {j \in 1..Len(GameIdOrder) :
      /\ GameIdOrder[j] \notin usedIds
      /\ \A k \in 1..(j - 1) : GameIdOrder[k] \in usedIds}}

\* identifiers a client can name in an event
NameableIds == usedIds \cup FreshIds

(***************************************************************************)
(* Messages and events.                                                    *)
(***************************************************************************)
Msg(to, type, g, body) == [to |-> to, type |-> type, gameId |-> g, body |-> body]

Event(type, c, g, num, nm) ==
  [type |-> type, conn |-> c, gameId |-> g, num |-> num, name |-> nm]

Emit(targets, type, g, body) ==
  [i \in 1..Len(targets) |-> Msg(targets[i], type, g, body)]

\* connections that received a message of the given type in the last step
Receivers(type) == {out[i].to : i \in {j \in 1..Len(out) : out[j].type = type}}

\* number of messages of the given type delivered to c in the last step
Count(type, c) ==
  Cardinality({i \in 1..Len(out) : out[i].type = type /\ out[i].to = c})

(***************************************************************************)
(* socket.io delivery (v1, v2): io.to(g) reaches every socket of room g    *)
(* whose transport is open, socket.to(g) all of those but the sender.      *)
(***************************************************************************)
\* mutant: the sender is not left out
IoToEveryone(rm, g, except) ==
  SetToSeq({c \in rm[g] : ws[c] = "OPEN"})

IoTo(rm, g, except) ==
  SetToSeq({c \in rm[g] : ws[c] = "OPEN" /\ c \notin except})

(***************************************************************************)
(* broadcastToGame of the WebSocket server: the roster of the room, each   *)
(* entry resolved through activePlayers, skipping the excluded player.     *)
(***************************************************************************)
\* mutant: the excluded player is not skipped
BroadcastTargetsNoExclude(players, reg, excludePlayerId) ==
  LET keep(p) == reg[p.id] # NoSession /\ ws[p.id] = "OPEN"
      kept == SelectSeq(players, keep)
  IN [i \in 1..Len(kept) |-> kept[i].id]

\* mutant: the loop stops at the first entry whose transport is not open
BroadcastTargetsAbort(players, reg, excludePlayerId) ==
  LET live(p) == reg[p.id] # NoSession /\ ws[p.id] = "OPEN"
      stop == {i \in 1..Len(players) : ~live(players[i])}
      upto == IF stop = {} THEN Len(players)
              ELSE (CHOOSE i \in stop : \A j \in stop : i <= j) - 1
      keep(p) == ~(excludePlayerId # NoConn /\ p.id = excludePlayerId)
      kept == SelectSeq(SubSeq(players, 1, upto), keep)
  IN [i \in 1..Len(kept) |-> kept[i].id]

BroadcastTargets(players, reg, excludePlayerId) ==
  LET keep(p) == /\ reg[p.id] # NoSession
                 /\ ws[p.id] = "OPEN"
                 /\ ~(excludePlayerId # NoConn /\ p.id = excludePlayerId)
      kept == SelectSeq(players, keep)
  IN [i \in 1..Len(kept) |-> kept[i].id]

BroadcastToGame(games, reg, g, type, body, excludePlayerId) ==
  IF games[g] = NoGame THEN <<>>
  ELSE Emit(BroadcastTargets(games[g].players, reg, excludePlayerId), type, g, body)

(***************************************************************************)
(* History bookkeeping shared by the variants.                             *)
(***************************************************************************)
\* a join-game of c naming g; created tells whether the room was made by it
JoinHist(c, g, created) ==
  /\ everJoined' = [everJoined EXCEPT ![g] = @ \cup {c}]
  /\ joins' = [joins EXCEPT ![c] = @ + 1]
  /\ submitted' = IF created THEN [submitted EXCEPT ![g] = <<>>] ELSE submitted
  /\ foreign' = IF created THEN [foreign EXCEPT ![g] = FALSE] ELSE foreign
  /\ lastMut' = [lastMut EXCEPT ![g] = now]
  /\ usedIds' = usedIds \cup {g}

\* the rooms in gone were deleted; the rooms in touched were mutated now
DropHist(gone, touched) ==
  /\ submitted' = [g \in GameIds |-> IF g \in gone THEN <<>> ELSE submitted[g]]
  /\ foreign' = [g \in GameIds |-> IF g \in gone THEN FALSE ELSE foreign[g]]
  /\ lastMut' = [g \in GameIds |->
                   IF g \in gone THEN NoTime
                   ELSE IF g \in touched THEN now ELSE lastMut[g]]
  /\ UNCHANGED <<everJoined, joins, usedIds>>

\* a call-number on the existing room g by c; byHost tells whether c may count
\* as the room's caller, accepted whether the number was stored
CallHist(g, n, byHost, accepted) ==
  /\ submitted' = IF byHost THEN [submitted EXCEPT ![g] = Append(@, n)] ELSE submitted
  /\ foreign' = IF byHost THEN foreign ELSE [foreign EXCEPT ![g] = TRUE]
  /\ lastMut' = IF accepted THEN [lastMut EXCEPT ![g] = now] ELSE lastMut
  /\ UNCHANGED <<everJoined, joins, usedIds>>

TouchHist(g) ==
  /\ lastMut' = [lastMut EXCEPT ![g] = now]
  /\ UNCHANGED <<everJoined, joins, submitted, foreign, usedIds>>

(***************************************************************************)
(* Initial state: the process has started, nobody is connected.            *)
(***************************************************************************)
Init ==
  /\ variant \in Variants
  /\ now = 0
  /\ advances = 0
  /\ ws = [c \in Conns |-> "NEW"]
  /\ activeGames = [g \in GameIds |-> NoGame]
  /\ registry = [c \in Conns |-> NoSession]
  /\ rooms = [g \in GameIds |-> {}]
  /\ timers = <<>>
  /\ nextSweep = IF variant = "v2" THEN SweepIntervalMs2
                 ELSE IF variant = "ws" THEN SweepIntervalMs3 ELSE NoTime
  /\ out = <<>>
  /\ ev = NoEvent
  /\ everJoined = [g \in GameIds |-> {}]
  /\ joins = [c \in Conns |-> 0]
  /\ submitted = [g \in GameIds |-> <<>>]
  /\ foreign = [g \in GameIds |-> FALSE]
  /\ lastMut = [g \in GameIds |-> NoTime]
  /\ usedIds = {}


(***************************************************************************)
(* Transport: a connection is accepted, and later its transport closes;    *)
(* the close handler of the variant runs as a step of its own.             *)
(***************************************************************************)
CanAccept(c) == ws[c] = "NEW" /\ \A d \in Conns : d < c => ws[d] # "NEW"

\* io.on("connection"): nothing is stored until the socket joins a game
IO_Connection(c) ==
  /\ variant \in {"v1", "v2"}
  /\ CanAccept(c)
  /\ ws' = [ws EXCEPT ![c] = "OPEN"]
  /\ out' = <<>>
  /\ ev' = Event("connection", c, NoGameId, 0, NoName)
  /\ UNCHANGED <<variant, now, advances, activeGames, registry, rooms, timers,
                 nextSweep, hist>>

\* the transport of an open connection closes; its close handler has not run yet
TransportClose(c) ==
  /\ ws[c] = "OPEN"
  /\ ws' = [ws EXCEPT ![c] = "CLOSING"]
  /\ out' = <<>>
  /\ ev' = Event("transport-close", c, NoGameId, 0, NoName)
  /\ UNCHANGED <<variant, now, advances, activeGames, registry, rooms, timers,
                 nextSweep, hist>>

\* socket.io takes a disconnecting socket out of all its rooms before the
\* "disconnect" handlers run
LeaveAll(c) == [g \in GameIds |-> rooms[g] \ {c}]

(***************************************************************************)
(* Second socket.io variant (src/server.ts, from line 352).                *)
(***************************************************************************)
\* mutant: the record starts finished
NewGameFinished(host) ==
  [players |-> <<>>, calledNumbers |-> <<>>, status |-> "finished",
   host |-> host, winner |-> NoWinner, createdAt |-> now, lastActivity |-> now]

NewGame2(host) ==
  [players |-> <<>>, calledNumbers |-> <<>>, status |-> "waiting",
   host |-> host, winner |-> NoWinner, createdAt |-> now, lastActivity |-> now]

\* lines 404-424: push a new entry, or overwrite the fields of the existing one
AddOrUpdate2(players, c, nm) ==
  LET idx == FindIndex(players, c)
  IN IF idx = 0 THEN Append(players, [id |-> c, name |-> nm])
     ELSE [players EXCEPT ![idx] = [@ EXCEPT !.name = nm]]

\* mutant: every caller is accepted
AuthorizedAny(game, c) == TRUE

\* line 460: game.host === socket.id || !game.host
Authorized2(game, c) == game.host = c \/ game.host = NoConn

\* mutant: the list is replaced by the new number
StoreNumberReset(called, n) == <<n>>

\* mutant: unshift instead of push
StoreNumberUnshift(called, n) ==
  LET pushed == <<n>> \o called
  IN IF Len(pushed) > MaxStored THEN SliceLast(pushed, KeepStored) ELSE pushed

\* lines 468-474: push, then keep the last 50 once more than 100 are stored
StoreNumber2(called, n) ==
  LET pushed == Append(called, n)
  IN IF Len(pushed) > MaxStored THEN SliceLast(pushed, KeepStored) ELSE pushed

\* a join into g marks the pending grace timers of g (history only)
MarkRejoined(ts, g) ==
  [i \in 1..Len(ts) |-> IF ts[i].gameId = g THEN [ts[i] EXCEPT !.rejoined = TRUE]
                        ELSE ts[i]]

\* lines 439-444: the snapshot lists the players without their socket ids
SnapshotPlayers2(players) == [i \in 1..Len(players) |-> [name |-> players[i].name]]

V2_JoinGame(c, g, nm) ==
  /\ variant = "v2"
  /\ ws[c] = "OPEN"
  /\ LET rooms1 == [rooms EXCEPT ![g] = @ \cup {c}]
         created == ~Exists(g)
         game0 == IF created THEN NewGame2(c) ELSE activeGames[g]
         players1 == AddOrUpdate2(game0.players, c, nm)
         game1 == [game0 EXCEPT !.players = players1, !.lastActivity = now]
     IN /\ rooms' = rooms1
        /\ registry' = [registry EXCEPT ![c] = [gameId |-> g, name |-> nm]]
        /\ activeGames' = [activeGames EXCEPT ![g] = game1]
        /\ out' = Emit(IoTo(rooms1, g, {c}), "player-joined", g,
                       [playerId |-> c, totalPlayers |-> Len(players1)])
                  \o <<Msg(c, "game-state", g,
                           [players |-> SnapshotPlayers2(players1),
                            calledNumbers |-> game1.calledNumbers,
                            status |-> game1.status, host |-> game1.host])>>
        /\ timers' = MarkRejoined(timers, g)
        /\ JoinHist(c, g, created)
  /\ ev' = Event("join-game", c, g, 0, nm)
  /\ UNCHANGED <<variant, now, advances, ws, nextSweep>>

V2_CallNumber(c, g, n) ==
  /\ variant = "v2"
  /\ ws[c] = "OPEN"
  /\ ev' = Event("call-number", c, g, n, NoName)
  /\ IF Exists(g) /\ Authorized2(activeGames[g], c)
     THEN LET called1 == StoreNumber2(activeGames[g].calledNumbers, n)
          IN /\ activeGames' = [activeGames EXCEPT
                                  ![g] = [@ EXCEPT !.calledNumbers = called1,
                                                   !.lastActivity = now]]
             /\ out' = Emit(IoTo(rooms, g, {}), "number-called", g,
                            [number |-> n,
                             calledNumbers |-> SliceLast(called1, PayloadLast),
                             totalCalled |-> Len(called1)])
             /\ CallHist(g, n, activeGames[g].host = c, TRUE)
     ELSE /\ out' = <<>>
          /\ IF Exists(g) THEN CallHist(g, n, FALSE, FALSE) ELSE UNCHANGED hist
          /\ UNCHANGED activeGames
  /\ UNCHANGED <<variant, now, advances, ws, registry, rooms, timers, nextSweep>>

V2_AnnounceWinner(c, g, nm) ==
  /\ variant = "v2"
  /\ ws[c] = "OPEN"
  /\ ev' = Event("announce-winner", c, g, 0, nm)
  /\ IF Exists(g)
     THEN /\ activeGames' = [activeGames EXCEPT
                               ![g] = [@ EXCEPT !.status = "finished",
                                                !.winner = [playerId |-> c,
                                                            playerName |-> nm],
                                                !.lastActivity = now]]
          /\ out' = Emit(IoTo(rooms, g, {}), "winner-announced", g,
                         [playerName |-> nm,
                          calledNumbers |-> Len(activeGames[g].calledNumbers)])
          /\ TouchHist(g)
     ELSE /\ out' = <<>>
          /\ UNCHANGED <<activeGames, hist>>
  /\ UNCHANGED <<variant, now, advances, ws, registry, rooms, timers, nextSweep>>

V2_SendMessage(c, g) ==
  /\ variant = "v2"
  /\ ws[c] = "OPEN"
  /\ ev' = Event("send-message", c, g, 0, NoName)
  /\ IF Exists(g)
     THEN /\ activeGames' = [activeGames EXCEPT ![g] = [@ EXCEPT !.lastActivity = now]]
          /\ out' = Emit(IoTo(rooms, g, {}), "new-message", g, [playerId |-> c])
          /\ TouchHist(g)
     ELSE /\ out' = <<>>
          /\ UNCHANGED <<activeGames, hist>>
  /\ UNCHANGED <<variant, now, advances, ws, registry, rooms, timers, nextSweep>>

\* mutant: update-board only relays, the room is not touched
V2_UpdateBoardRelayOnly(c, g) ==
  /\ variant = "v2"
  /\ ws[c] = "OPEN"
  /\ ev' = Event("update-board", c, g, 0, NoName)
  /\ out' = IF Exists(g)
            THEN Emit(IoTo(rooms, g, {c}), "board-updated", g, [playerId |-> c])
            ELSE <<>>
  /\ UNCHANGED <<variant, now, advances, ws, activeGames, registry, rooms, timers,
                 nextSweep, hist>>

V2_UpdateBoard(c, g) ==
  /\ variant = "v2"
  /\ ws[c] = "OPEN"
  /\ ev' = Event("update-board", c, g, 0, NoName)
  /\ IF Exists(g)
     THEN /\ activeGames' = [activeGames EXCEPT ![g] = [@ EXCEPT !.lastActivity = now]]
          /\ out' = Emit(IoTo(rooms, g, {c}), "board-updated", g, [playerId |-> c])
          /\ TouchHist(g)
     ELSE /\ out' = <<>>
          /\ UNCHANGED <<activeGames, hist>>
  /\ UNCHANGED <<variant, now, advances, ws, registry, rooms, timers, nextSweep>>

\* lines 673-711; the grace timer is scheduled when the roster became empty
V2_Disconnect(c) ==
  /\ variant = "v2"
  /\ ws[c] = "CLOSING"
  /\ ws' = [ws EXCEPT ![c] = "CLOSED"]
  /\ rooms' = LeaveAll(c)
  /\ ev' = Event("disconnect", c,
                 IF registry[c] = NoSession THEN NoGameId ELSE registry[c].gameId,
                 0, NoName)
  /\ IF registry[c] # NoSession /\ Exists(registry[c].gameId)
     THEN LET g == registry[c].gameId
              players1 == FilterOut(activeGames[g].players, c)
          IN /\ activeGames' = [activeGames EXCEPT
                                  ![g] = [@ EXCEPT !.players = players1,
                                                   !.lastActivity = now]]
             /\ out' = Emit(IoTo(LeaveAll(c), g, {c}), "player-left", g,
                            [playerId |-> c, totalPlayers |-> Len(players1)])
             /\ timers' = IF Len(players1) = 0
                          THEN Append(timers, [gameId |-> g, due |-> now + GraceMs,
                                               rejoined |-> FALSE])
                          ELSE timers
             /\ TouchHist(g)
     ELSE /\ out' = <<>>
          /\ UNCHANGED <<activeGames, timers, hist>>
  /\ registry' = [registry EXCEPT ![c] = NoSession]
  /\ UNCHANGED <<variant, now, advances, nextSweep>>

\* mutant: the callback deletes the room without looking at its roster
V2_GraceTimerNoRecheck ==
  /\ variant = "v2"
  /\ timers # <<>>
  /\ now >= Head(timers).due
  /\ LET g == Head(timers).gameId
         delete == Exists(g)
     IN /\ activeGames' = IF delete THEN [activeGames EXCEPT ![g] = NoGame]
                          ELSE activeGames
        /\ DropHist(IF delete THEN {g} ELSE {}, {})
        /\ ev' = Event("grace-timer", NoConn, g, 0, NoName)
  /\ timers' = Tail(timers)
  /\ out' = <<>>
  /\ UNCHANGED <<variant, now, advances, ws, registry, rooms, nextSweep>>

\* lines 695-701: the callback of the oldest pending grace timer
V2_GraceTimer ==
  /\ variant = "v2"
  /\ timers # <<>>
  /\ now >= Head(timers).due
  /\ LET g == Head(timers).gameId
         delete == Exists(g) /\ Len(activeGames[g].players) = 0
     IN /\ activeGames' = IF delete THEN [activeGames EXCEPT ![g] = NoGame]
                          ELSE activeGames
        /\ DropHist(IF delete THEN {g} ELSE {}, {})
        /\ ev' = Event("grace-timer", NoConn, g, 0, NoName)
  /\ timers' = Tail(timers)
  /\ out' = <<>>
  /\ UNCHANGED <<variant, now, advances, ws, registry, rooms, nextSweep>>

\* lines 1030-1049
Stale2(game) == now - game.lastActivity > StaleMs2

V2_Sweep ==
  /\ variant = "v2"
  /\ now >= nextSweep
  /\ LET gone == {g \in GameIds : Exists(g) /\ Stale2(activeGames[g])}
     IN /\ activeGames' = [g \in GameIds |-> IF g \in gone THEN NoGame
                                             ELSE activeGames[g]]
        /\ DropHist(gone, {})
  /\ nextSweep' = now + SweepIntervalMs2
  /\ out' = <<>>
  /\ ev' = Event("sweep", NoConn, NoGameId, 0, NoName)
  /\ UNCHANGED <<variant, now, advances, ws, registry, rooms, timers>>

\* lines 796-814: POST /api/create-game mints an identifier and stores a record
\* without players and without host
V2_CreateGame(g) ==
  /\ variant = "v2"
  /\ g \in FreshIds
  /\ activeGames' = [activeGames EXCEPT ![g] = NewGame2(NoConn)]
  /\ usedIds' = usedIds \cup {g}
  /\ lastMut' = [lastMut EXCEPT ![g] = now]
  /\ out' = <<>>
  /\ ev' = Event("create-game", NoConn, g, 0, NoName)
  /\ UNCHANGED <<variant, now, advances, ws, registry, rooms, timers, nextSweep,
                 everJoined, joins, submitted, foreign>>

(***************************************************************************)
(* Time passes.  A due callback runs before the clock moves on.            *)
(***************************************************************************)
Delays ==
  IF variant = "v2" THEN {GraceMs, StaleMs2, StaleMs2 + 1}
  ELSE {SweepIntervalMs3, StaleMs3, StaleMs3 + 1}

SomethingDue ==
  \/ nextSweep # NoTime /\ now >= nextSweep
  \/ timers # <<>> /\ now >= Head(timers).due

Advance(d) ==
  /\ variant \in {"v2", "ws"}
  /\ ~SomethingDue
  /\ now' = now + d
  /\ advances' = advances + 1
  /\ out' = <<>>
  /\ ev' = Event("advance", NoConn, NoGameId, 0, NoName)
  /\ UNCHANGED <<variant, ws, activeGames, registry, rooms, timers, nextSweep, hist>>


(***************************************************************************)
(* First socket.io variant (src/server.ts, lines 1-351).  It keeps no      *)
(* lastActivity, runs no timer and no sweep.                               *)
(***************************************************************************)
NewGame1(host) ==
  [players |-> <<>>, calledNumbers |-> <<>>, status |-> "waiting",
   host |-> host, winner |-> NoWinner, createdAt |-> now, lastActivity |-> NoTime]

\* line 76: game.host === socket.id
Authorized1(game, c) == game.host = c

V1_JoinGame(c, g, nm) ==
  /\ variant = "v1"
  /\ ws[c] = "OPEN"
  /\ LET rooms1 == [rooms EXCEPT ![g] = @ \cup {c}]
         created == ~Exists(g)
         game0 == IF created THEN NewGame1(c) ELSE activeGames[g]
         players1 == Append(game0.players, [id |-> c, name |-> nm])
         game1 == [game0 EXCEPT !.players = players1]
     IN /\ rooms' = rooms1
        /\ registry' = [registry EXCEPT ![c] = [gameId |-> g, name |-> nm]]
        /\ activeGames' = [activeGames EXCEPT ![g] = game1]
        /\ out' = Emit(IoTo(rooms1, g, {c}), "player-joined", g,
                       [playerId |-> c, totalPlayers |-> Len(players1)])
                  \o <<Msg(c, "game-state", g,
                           [players |-> players1,
                            calledNumbers |-> game1.calledNumbers,
                            status |-> game1.status, host |-> game1.host])>>
        /\ JoinHist(c, g, created)
  /\ ev' = Event("join-game", c, g, 0, nm)
  /\ UNCHANGED <<variant, now, advances, ws, timers, nextSweep>>

V1_CallNumber(c, g, n) ==
  /\ variant = "v1"
  /\ ws[c] = "OPEN"
  /\ ev' = Event("call-number", c, g, n, NoName)
  /\ IF Exists(g) /\ Authorized1(activeGames[g], c)
     THEN LET called1 == Append(activeGames[g].calledNumbers, n)
          IN /\ activeGames' = [activeGames EXCEPT
                                  ![g] = [@ EXCEPT !.calledNumbers = called1]]
             /\ out' = Emit(IoTo(rooms, g, {}), "number-called", g,
                            [number |-> n, calledNumbers |-> called1,
                             totalCalled |-> Len(called1)])
             /\ CallHist(g, n, TRUE, TRUE)
     ELSE /\ out' = <<>>
          /\ IF Exists(g) THEN CallHist(g, n, FALSE, FALSE) ELSE UNCHANGED hist
          /\ UNCHANGED activeGames
  /\ UNCHANGED <<variant, now, advances, ws, registry, rooms, timers, nextSweep>>

V1_AnnounceWinner(c, g, nm) ==
  /\ variant = "v1"
  /\ ws[c] = "OPEN"
  /\ ev' = Event("announce-winner", c, g, 0, nm)
  /\ IF Exists(g)
     THEN /\ activeGames' = [activeGames EXCEPT
                               ![g] = [@ EXCEPT !.status = "finished",
                                                !.winner = [playerId |-> c,
                                                            playerName |-> nm]]]
          /\ out' = Emit(IoTo(rooms, g, {}), "winner-announced", g,
                         [playerName |-> nm,
                          calledNumbers |-> Len(activeGames[g].calledNumbers)])
          /\ TouchHist(g)
     ELSE /\ out' = <<>>
          /\ UNCHANGED <<activeGames, hist>>
  /\ UNCHANGED <<variant, now, advances, ws, registry, rooms, timers, nextSweep>>

\* lines 163-170: a relay to the socket.io room, whether or not a record exists
V1_SendMessage(c, g) ==
  /\ variant = "v1"
  /\ ws[c] = "OPEN"
  /\ ev' = Event("send-message", c, g, 0, NoName)
  /\ out' = Emit(IoTo(rooms, g, {}), "new-message", g, [playerId |-> c])
  /\ IF Exists(g) THEN TouchHist(g) ELSE UNCHANGED hist
  /\ UNCHANGED <<variant, now, advances, ws, activeGames, registry, rooms, timers,
                 nextSweep>>

\* lines 173-201: an emptied room is deleted at once
V1_Disconnect(c) ==
  /\ variant = "v1"
  /\ ws[c] = "CLOSING"
  /\ ws' = [ws EXCEPT ![c] = "CLOSED"]
  /\ rooms' = LeaveAll(c)
  /\ ev' = Event("disconnect", c,
                 IF registry[c] = NoSession THEN NoGameId ELSE registry[c].gameId,
                 0, NoName)
  /\ IF registry[c] # NoSession /\ Exists(registry[c].gameId)
     THEN LET g == registry[c].gameId
              players1 == FilterOut(activeGames[g].players, c)
          IN /\ activeGames' = [activeGames EXCEPT
                                  ![g] = IF Len(players1) = 0 THEN NoGame
                                         ELSE [@ EXCEPT !.players = players1]]
             /\ out' = Emit(IoTo(LeaveAll(c), g, {c}), "player-left", g,
                            [playerId |-> c, totalPlayers |-> Len(players1)])
             /\ IF Len(players1) = 0 THEN DropHist({g}, {}) ELSE DropHist({}, {g})
     ELSE /\ out' = <<>>
          /\ UNCHANGED <<activeGames, hist>>
  /\ registry' = [registry EXCEPT ![c] = NoSession]
  /\ UNCHANGED <<variant, now, advances, timers, nextSweep>>

\* lines 273-285: the record is stored without a host field
V1_CreateGame(g) ==
  /\ variant = "v1"
  /\ g \in FreshIds
  /\ activeGames' = [activeGames EXCEPT ![g] = NewGame1(NoConn)]
  /\ usedIds' = usedIds \cup {g}
  /\ lastMut' = [lastMut EXCEPT ![g] = now]
  /\ out' = <<>>
  /\ ev' = Event("create-game", NoConn, g, 0, NoName)
  /\ UNCHANGED <<variant, now, advances, ws, registry, rooms, timers, nextSweep,
                 everJoined, joins, submitted, foreign>>

(***************************************************************************)
(* WebSocket server (src/unnamed/part_000).  Its Game Record has neither   *)
(* host nor winner nor lastActivity; rooms (socket.io) stays empty.        *)
(***************************************************************************)
NewGame3 ==
  [players |-> <<>>, calledNumbers |-> <<>>, status |-> "waiting",
   host |-> NoConn, winner |-> NoWinner, createdAt |-> now, lastActivity |-> NoTime]

\* lines 64-82: the session is stored at upgrade time, "connected" sent on open
WS_Accept(c) ==
  /\ variant = "ws"
  /\ CanAccept(c)
  /\ ws' = [ws EXCEPT ![c] = "OPEN"]
  /\ registry' = [registry EXCEPT ![c] = [gameId |-> NoGameId, name |-> NoName]]
  /\ out' = <<Msg(c, "connected", NoGameId, [playerId |-> c])>>
  /\ ev' = Event("connection", c, NoGameId, 0, NoName)
  /\ UNCHANGED <<variant, now, advances, activeGames, rooms, timers, nextSweep, hist>>

\* lines 282-292: an entry is pushed only when the player has none yet
AddIfAbsent3(players, c, nm) ==
  IF FindIndex(players, c) = 0
  THEN Append(players, [id |-> c, name |-> IF nm = NoName THEN "Anonymous" ELSE nm])
  ELSE players

WS_JoinGame(c, g, nm) ==
  /\ variant = "ws"
  /\ ws[c] = "OPEN"
  /\ registry[c] # NoSession
  /\ LET created == ~Exists(g)
         game0 == IF created THEN NewGame3 ELSE activeGames[g]
         players1 == AddIfAbsent3(game0.players, c, nm)
         game1 == [game0 EXCEPT !.players = players1]
         games1 == [activeGames EXCEPT ![g] = game1]
         reg1 == [registry EXCEPT ![c] = [gameId |-> g, name |-> nm]]
     IN /\ registry' = reg1
        /\ activeGames' = games1
        /\ out' = <<Msg(c, "game-state", g,
                        [players |-> players1,
                         calledNumbers |-> game1.calledNumbers,
                         status |-> game1.status, host |-> NoConn])>>
                  \o BroadcastToGame(games1, reg1, g, "player-joined",
                                     [playerId |-> c, totalPlayers |-> Len(players1)],
                                     c)
        /\ JoinHist(c, g, created)
  /\ ev' = Event("join-game", c, g, 0, nm)
  /\ UNCHANGED <<variant, now, advances, ws, rooms, timers, nextSweep>>

WS_CallNumber(c, g, n) ==
  /\ variant = "ws"
  /\ ws[c] = "OPEN"
  /\ registry[c] # NoSession
  /\ ev' = Event("call-number", c, g, n, NoName)
  /\ IF ~Exists(g)
     THEN /\ out' = <<Msg(c, "error", g, [message |-> "Game not found"])>>
          /\ UNCHANGED <<activeGames, hist>>
     ELSE LET called1 == Append(activeGames[g].calledNumbers, n)
              games1 == [activeGames EXCEPT ![g] = [@ EXCEPT !.calledNumbers = called1]]
          IN /\ activeGames' = games1
             /\ out' = BroadcastToGame(games1, registry, g, "number-called",
                                       [number |-> n, calledNumbers |-> called1,
                                        totalCalled |-> Len(called1)],
                                       NoConn)
             /\ CallHist(g, n, TRUE, TRUE)
  /\ UNCHANGED <<variant, now, advances, ws, registry, rooms, timers, nextSweep>>

\* lines 352-380: only the status is stored
WS_AnnounceWinner(c, g, nm) ==
  /\ variant = "ws"
  /\ ws[c] = "OPEN"
  /\ registry[c] # NoSession
  /\ ev' = Event("announce-winner", c, g, 0, nm)
  /\ IF ~Exists(g)
     THEN /\ out' = <<Msg(c, "error", g, [message |-> "Game not found"])>>
          /\ UNCHANGED <<activeGames, hist>>
     ELSE /\ activeGames' = [activeGames EXCEPT ![g] = [@ EXCEPT !.status = "finished"]]
          /\ out' = BroadcastToGame(activeGames, registry, g, "winner-announced",
                                    [playerName |-> nm,
                                     calledNumbers |-> Len(activeGames[g].calledNumbers)],
                                    NoConn)
          /\ TouchHist(g)
  /\ UNCHANGED <<variant, now, advances, ws, registry, rooms, timers, nextSweep>>

\* lines 383-398: relayed to the named room when the sender has joined some game
WS_ChatMessage(c, g) ==
  /\ variant = "ws"
  /\ ws[c] = "OPEN"
  /\ registry[c] # NoSession
  /\ ev' = Event("send-chat", c, g, 0, NoName)
  /\ IF registry[c].gameId = NoGameId
     THEN /\ out' = <<>>
          /\ UNCHANGED hist
     ELSE /\ out' = BroadcastToGame(activeGames, registry, g, "chat-message",
                                    [playerId |-> c], c)
          /\ IF Exists(g) THEN TouchHist(g) ELSE UNCHANGED hist
  /\ UNCHANGED <<variant, now, advances, ws, activeGames, registry, rooms, timers,
                 nextSweep>>

\* lines 97-122: socket.onclose
WS_Close(c) ==
  /\ variant = "ws"
  /\ ws[c] = "CLOSING"
  /\ ws' = [ws EXCEPT ![c] = "CLOSED"]
  /\ ev' = Event("disconnect", c,
                 IF registry[c] = NoSession THEN NoGameId ELSE registry[c].gameId,
                 0, NoName)
  /\ IF registry[c] # NoSession /\ registry[c].gameId # NoGameId
        /\ Exists(registry[c].gameId)
     THEN LET g == registry[c].gameId
              players1 == FilterOut(activeGames[g].players, c)
              games1 == [activeGames EXCEPT ![g] = [@ EXCEPT !.players = players1]]
          IN /\ out' = BroadcastToGame(games1, registry, g, "player-left",
                                       [playerId |-> c, totalPlayers |-> Len(players1)],
                                       c)
             /\ activeGames' = IF Len(players1) = 0
                               THEN [activeGames EXCEPT ![g] = NoGame]
                               ELSE games1
             /\ IF Len(players1) = 0 THEN DropHist({g}, {}) ELSE DropHist({}, {g})
     ELSE /\ out' = <<>>
          /\ UNCHANGED <<activeGames, hist>>
  /\ registry' = [registry EXCEPT ![c] = NoSession]
  /\ UNCHANGED <<variant, now, advances, rooms, timers, nextSweep>>

\* lines 406-421: the sweep compares createdAt
Stale3(game) == now - game.createdAt > StaleMs3

WS_Sweep ==
  /\ variant = "ws"
  /\ now >= nextSweep
  /\ LET gone == {g \in GameIds : Exists(g) /\ Stale3(activeGames[g])}
     IN /\ activeGames' = [g \in GameIds |-> IF g \in gone THEN NoGame
                                             ELSE activeGames[g]]
        /\ DropHist(gone, {})
  /\ nextSweep' = now + SweepIntervalMs3
  /\ out' = <<>>
  /\ ev' = Event("sweep", NoConn, NoGameId, 0, NoName)
  /\ UNCHANGED <<variant, now, advances, ws, registry, rooms, timers>>

\* lines 171-183
WS_CreateGame(g) ==
  /\ variant = "ws"
  /\ g \in FreshIds
  /\ activeGames' = [activeGames EXCEPT ![g] = NewGame3]
  /\ usedIds' = usedIds \cup {g}
  /\ lastMut' = [lastMut EXCEPT ![g] = now]
  /\ out' = <<>>
  /\ ev' = Event("create-game", NoConn, g, 0, NoName)
  /\ UNCHANGED <<variant, now, advances, ws, registry, rooms, timers, nextSweep,
                 everJoined, joins, submitted, foreign>>

(***************************************************************************)
(* update-board in the first socket.io variant and in the WebSocket server. *)
(***************************************************************************)
\* src/server.ts lines 204-210: a relay to the other sockets of the socket.io
\* room, whether or not a record exists; no record is touched
V1_UpdateBoard(c, g) ==
  /\ variant = "v1"
  /\ ws[c] = "OPEN"
  /\ ev' = Event("update-board", c, g, 0, NoName)
  /\ out' = Emit(IoTo(rooms, g, {c}), "board-updated", g, [playerId |-> c])
  /\ UNCHANGED <<variant, now, advances, ws, activeGames, registry, rooms, timers,
                 nextSweep, hist>>

\* src/unnamed/part_000 lines 220-254: the switch has no case "update-board",
\* the default branch answers the sender
WS_UpdateBoard(c, g) ==
  /\ variant = "ws"
  /\ ws[c] = "OPEN"
  /\ registry[c] # NoSession
  /\ ev' = Event("update-board", c, g, 0, NoName)
  /\ out' = <<Msg(c, "error", NoGameId,
                  [message |-> "Unknown message type: update-board"])>>
  /\ UNCHANGED <<variant, now, advances, ws, activeGames, registry, rooms, timers,
                 nextSweep, hist>>

(***************************************************************************)
(* The next-state relation, in groups of handlers.  CS, GS, NS and DS are  *)
(* the connections, game identifiers, names (numbers) and delays the       *)
(* events are drawn from.  A connection sends at most MaxJoins join-game   *)
(* events, a room stores at most MaxCalls numbers (MaxLongCalls in the     *)
(* specification of long games) and the clock advances at most MaxAdvance  *)
(* times.                                                                  *)
(***************************************************************************)
MayJoin(c) == joins[c] < MaxJoins
MayCall(g) == Exists(g) => Len(activeGames[g].calledNumbers) < MaxCalls

\* long games: the numbers called in a room are 1, 2, 3, ... up to MaxLongCalls
NextNumber(g) ==
  IF Exists(g) /\ activeGames[g].calledNumbers # <<>>
  THEN activeGames[g].calledNumbers[Len(activeGames[g].calledNumbers)] + 1
  ELSE 1

Transport(CS) ==
  \/ \E c \in CS : IO_Connection(c)
  \/ \E c \in CS : WS_Accept(c)
  \/ \E c \in CS : TransportClose(c)

Joins(CS, GS, NS) ==
  \/ \E c \in CS, g \in NameableIds \cap GS, nm \in NS :
       MayJoin(c) /\ V1_JoinGame(c, g, nm)
  \/ \E c \in CS, g \in NameableIds \cap GS, nm \in NS :
       MayJoin(c) /\ V2_JoinGame(c, g, nm)
  \/ \E c \in CS, g \in NameableIds \cap GS, nm \in NS :
       MayJoin(c) /\ WS_JoinGame(c, g, nm)

Leaves(CS) ==
  \/ \E c \in CS : V1_Disconnect(c)
  \/ \E c \in CS : V2_Disconnect(c)
  \/ \E c \in CS : WS_Close(c)

Creates(GS) ==
  \/ \E g \in GS : V1_CreateGame(g)
  \/ \E g \in GS : V2_CreateGame(g)
  \/ \E g \in GS : WS_CreateGame(g)

Calls(CS, GS, NS) ==
  \/ \E c \in CS, g \in NameableIds \cap GS, n \in NS :
       MayCall(g) /\ V1_CallNumber(c, g, n)
  \/ \E c \in CS, g \in NameableIds \cap GS, n \in NS :
       MayCall(g) /\ V2_CallNumber(c, g, n)
  \/ \E c \in CS, g \in NameableIds \cap GS, n \in NS :
       MayCall(g) /\ WS_CallNumber(c, g, n)

LongCalls(CS, GS) ==
  \/ \E c \in CS, g \in NameableIds \cap GS :
       NextNumber(g) <= MaxLongCalls /\ V1_CallNumber(c, g, NextNumber(g))
  \/ \E c \in CS, g \in NameableIds \cap GS :
       NextNumber(g) <= MaxLongCalls /\ V2_CallNumber(c, g, NextNumber(g))
  \/ \E c \in CS, g \in NameableIds \cap GS :
       NextNumber(g) <= MaxLongCalls /\ WS_CallNumber(c, g, NextNumber(g))

Winners(CS, GS, NS) ==
  \/ \E c \in CS, g \in NameableIds \cap GS, nm \in NS : V1_AnnounceWinner(c, g, nm)
  \/ \E c \in CS, g \in NameableIds \cap GS, nm \in NS : V2_AnnounceWinner(c, g, nm)
  \/ \E c \in CS, g \in NameableIds \cap GS, nm \in NS : WS_AnnounceWinner(c, g, nm)

Chats(CS, GS) ==
  \/ \E c \in CS, g \in NameableIds \cap GS : V1_SendMessage(c, g)
  \/ \E c \in CS, g \in NameableIds \cap GS : V2_SendMessage(c, g)
  \/ \E c \in CS, g \in NameableIds \cap GS : WS_ChatMessage(c, g)

Boards(CS, GS) ==
  \/ \E c \in CS, g \in NameableIds \cap GS : V1_UpdateBoard(c, g)
  \/ \E c \in CS, g \in NameableIds \cap GS : V2_UpdateBoard(c, g)
  \/ \E c \in CS, g \in NameableIds \cap GS : WS_UpdateBoard(c, g)

Timed ==
  \/ V2_GraceTimer
  \/ V2_Sweep
  \/ WS_Sweep
  \/ \E d \in Delays : advances < MaxAdvance /\ Advance(d)

(***************************************************************************)
(* The whole server: every handler, every input.                           *)
(***************************************************************************)
Next ==
  \/ Transport(Conns)
  \/ Joins(Conns, GameIds, Names)
  \/ Leaves(Conns)
  \/ Creates(GameIds)
  \/ Calls(Conns, GameIds, Numbers)
  \/ Winners(Conns, GameIds, Names)
  \/ Chats(Conns, GameIds)
  \/ Boards(Conns, GameIds)
  \/ Timed

Spec == Init /\ [][Next]_vars

(***************************************************************************)
(* Roster: connections come, join rooms and go.  Three connections, two    *)
(* rooms, one name.  No time passes, so the grace timers of v2 stay        *)
(* pending: they only ever delete a room whose roster is empty.            *)
(***************************************************************************)
NextRoster ==
  \/ Transport(Conns)
  \/ Joins(Conns, GameIds, {"ann"})
  \/ Leaves(Conns)

SpecRoster == Init /\ [][NextRoster]_vars


(***************************************************************************)
(* Long games: two connections, one room, and the numbers 1, 2, 3, ...     *)
(* called one after the other, past the 100 entries the second variant     *)
(* stores.                                                                 *)
(***************************************************************************)
NextCalls ==
  \/ Transport({1, 2})
  \/ Joins({1, 2}, {"g1"}, {"ann"})
  \/ Leaves({1, 2})
  \/ Creates({"g1"})
  \/ LongCalls({1, 2}, {"g1"})

SpecCalls == Init /\ [][NextCalls]_vars

(***************************************************************************)
(* Cleanup: the grace timers and the idle sweeps, with two connections and  *)
(* one room.  No time passes in the first variant, which has neither.      *)
(***************************************************************************)
NextTimed ==
  \/ Transport({1, 2})
  \/ Joins({1, 2}, {"g1"}, {"ann"})
  \/ Leaves({1, 2})
  \/ Creates({"g1"})
  \/ Timed

SpecTimed == Init /\ [][NextTimed]_vars

(***************************************************************************)
(* Winners: two connections, one room, announcements under two names.      *)
(***************************************************************************)
NextWinner ==
  \/ Transport({1, 2})
  \/ Joins({1, 2}, {"g1"}, {"ann"})
  \/ Leaves({1, 2})
  \/ Creates({"g1"})
  \/ Winners({1, 2}, {"g1"}, Names)

SpecWinner == Init /\ [][NextWinner]_vars

(***************************************************************************)
(* Claims about the roster (SpecRoster).                                   *)
(***************************************************************************)
\* connections that sent join-game for g and whose disconnect has not been handled
JoinedNotLeft(g) == {c \in everJoined[g] : ws[c] # "CLOSED"}

\* roster members of g whose transport is open
OpenRoster(g) == {c \in RosterIds(g) : ws[c] = "OPEN"}

\* C1: as long as every join-game came from a different connection, the roster
\* size of every room equals the number of connections that joined it and have
\* not disconnected since.
C1_RosterSize ==
  (\A c \in Conns : joins[c] <= 1) =>
    \A g \in GameIds : Len(Roster(g)) = Cardinality(JoinedNotLeft(g))

\* C1 witness: three connections joined one room, one of them has left
C1_Witness ==
  /\ \A c \in Conns : joins[c] <= 1
  /\ \E g \in GameIds : Cardinality(everJoined[g]) = 3 /\ Len(Roster(g)) = 2
  /\ ev.type = "disconnect"

\* C2: once the disconnect of a connection has been handled, no room has a
\* roster entry of that connection.
C2_RemovedOnLeave ==
  \A c \in Conns : ws[c] = "CLOSED" => \A g \in GameIds : c \notin RosterIds(g)

\* C6: a broadcast that excludes a connection (player-joined excludes the
\* joiner, player-left the leaver) is not delivered to it and is delivered to
\* every other roster member of the room whose transport is open.
C6_BroadcastExclude ==
  /\ ev.type = "join-game" =>
       /\ ev.conn \notin Receivers("player-joined")
       /\ OpenRoster(ev.gameId) \ {ev.conn} \subseteq Receivers("player-joined")
  /\ ev.type = "disconnect" /\ ev.gameId # NoGameId =>
       /\ ev.conn \notin Receivers("player-left")
       /\ OpenRoster(ev.gameId) \ {ev.conn} \subseteq Receivers("player-left")

\* C6 witness: broadcastToGame ran for a join into a room with another open
\* member, who got the message, and a member whose transport is closed
C6_Witness ==
  /\ variant = "ws"
  /\ ev.type = "join-game"
  /\ ev.conn \in RosterIds(ev.gameId)
  /\ Receivers("player-joined") # {}
  /\ \E c \in RosterIds(ev.gameId) : ws[c] = "CLOSING"

\* a room that connections joined, all of which have disconnected
Abandoned(g) ==
  Exists(g) /\ everJoined[g] # {} /\ \A c \in everJoined[g] : ws[c] = "CLOSED"

\* no connection is left that could act, no timer and no sweep is pending
Quiet ==
  /\ \A c \in Conns : ws[c] \in {"NEW", "CLOSED"}
  /\ timers = <<>>
  /\ nextSweep = NoTime

\* C9: a room all of whose joined connections have disconnected is eventually
\* removed; so when nothing is left that could remove it, it is gone.
C9_AbandonedRoomsGo ==
  Quiet => \A g \in GameIds : ~Abandoned(g)


(***************************************************************************)
(* Claims about call-number (SpecCalls).                                   *)
(***************************************************************************)
Called(g) == activeGames[g].calledNumbers

Distinct(s) == Cardinality(Range(s)) = Len(s)

IsSuffix(s, t) ==
  Len(s) <= Len(t) /\ s = SubSeq(t, Len(t) - Len(s) + 1, Len(t))

\* the rooms all of whose call-number events came from the host (from any
\* connection in the WebSocket server, which has no host), with distinct values
HostOnly(g) == Exists(g) /\ ~foreign[g] /\ Distinct(submitted[g])

CallStep(g) == ev'.type = "call-number" /\ ev'.gameId = g /\ Exists(g)

\* C4: a call-number from a connection that is not the host of a hosted room
\* changes no Game Record and delivers nothing: no number-called to anyone and
\* no error to the caller.
C4_NonHostDropped ==
  [][\A g \in GameIds :
       (CallStep(g) /\ activeGames[g].host \notin {NoConn, ev'.conn}) =>
         (activeGames' = activeGames /\ out' = <<>>)]_vars

\* C4 witness: a member that is not the host called a number in a room with
\* other open members, and nothing was delivered
C4_Witness ==
  /\ ev.type = "call-number"
  /\ Exists(ev.gameId)
  /\ activeGames[ev.gameId].host \notin {NoConn, ev.conn}
  /\ ev.conn \in OpenRoster(ev.gameId)
  /\ activeGames[ev.gameId].host \in OpenRoster(ev.gameId)
  /\ out = <<>>

\* C5: a call-number for an existing room whose host is unset, or from its
\* host, is accepted: the value is stored last and every open member of the
\* room receives number-called.
C5_AcceptedWhenUnhosted ==
  [][\A g \in GameIds :
       (CallStep(g) /\ activeGames[g].host \in {NoConn, ev'.conn}) =>
         /\ activeGames'[g].calledNumbers # <<>>
         /\ activeGames'[g].calledNumbers[Len(activeGames'[g].calledNumbers)] = ev'.num
         /\ \A c \in RosterIds(g) : ws[c] = "OPEN" =>
              \E i \in 1..Len(out') : out'[i].to = c /\ out'[i].type = "number-called"
    ]_vars


(***************************************************************************)
(* Claims about cleanup (SpecTimed).                                       *)
(***************************************************************************)
\* the step is the disconnect of a connection whose departure empties room g
EmptyingStep(g) ==
  /\ ev'.type = "disconnect"
  /\ ev'.gameId = g
  /\ Exists(g)
  /\ FilterOut(activeGames[g].players, ev'.conn) = <<>>

\* the step is the callback of a grace timer scheduled for room g
GraceStep(g) == ev'.type = "grace-timer" /\ ev'.gameId = g

\* C7: when a disconnect empties a roster the room is removed at once or a
\* grace timer is scheduled for it; the timer removes the room if no join into
\* the room came since, and does not remove it if one came (also when the
\* player that joined has left again).
C7_GraceEviction ==
  [][\A g \in GameIds :
       /\ EmptyingStep(g) =>
            \/ ~(activeGames'[g] # NoGame)
            \/ /\ Len(timers') = Len(timers) + 1
               /\ timers'[Len(timers')].gameId = g
               /\ timers'[Len(timers')].due = now + GraceMs
       /\ GraceStep(g) /\ ~Head(timers).rejoined => activeGames'[g] = NoGame
       /\ GraceStep(g) /\ Head(timers).rejoined => activeGames'[g] = activeGames[g]
    ]_vars

StaleMs == IF variant = "v2" THEN StaleMs2 ELSE StaleMs3

\* C8: a run of the idle sweep removes exactly the rooms whose latest mutation
\* is older than the staleness threshold, whatever their rosters hold.
C8_SweepByActivity ==
  [][ev'.type = "sweep" =>
       \A g \in GameIds : Exists(g) =>
         (activeGames'[g] = NoGame <=> now - lastMut[g] > StaleMs)]_vars


(***************************************************************************)
(* Claims about announce-winner (SpecWinner).                              *)
(***************************************************************************)
\* C10: after an announce-winner on an existing room, whoever sent it, the
\* room is finished and its winner record is the one just announced (so a
\* second announcement replaces the first).
C10_WinnerRecorded ==
  ev.type = "announce-winner" /\ Exists(ev.gameId) =>
    /\ activeGames[ev.gameId].status = "finished"
    /\ activeGames[ev.gameId].winner = [playerId |-> ev.conn, playerName |-> ev.name]


(***************************************************************************)
(* Re-joins: two connections, one room, join-game under two names.         *)
(***************************************************************************)
NextRejoin ==
  \/ Transport({1, 2})
  \/ Joins({1, 2}, {"g1"}, Names)
  \/ Leaves({1, 2})

SpecRejoin == Init /\ [][NextRejoin]_vars

(***************************************************************************)
(* Claims about the roster entries (SpecRejoin, SpecRoster).                *)
(***************************************************************************)
\* the roster entries of connection c in the player list
EntriesOf(players, c) == {i \in 1..Len(players) : players[i].id = c}

\* C11: a join-game from a connection that already has an entry in the room's
\* roster sets the fields of that entry to the values just supplied, so the
\* entry and the session of the connection agree afterwards.
C11_RejoinUpdates ==
  [][\A g \in GameIds :
       (ev'.type = "join-game" /\ ev'.gameId = g /\ ev'.conn \in RosterIds(g)) =>
         /\ registry'[ev'.conn].name = ev'.name
         /\ \A i \in EntriesOf(activeGames'[g].players, ev'.conn) :
              activeGames'[g].players[i].name = ev'.name
    ]_vars

\* C12: no roster holds two entries of one connection.
C12_UniqueEntries ==
  \A g \in GameIds : Cardinality(RosterIds(g)) = Len(Roster(g))


(***************************************************************************)
(* Claims about empty rooms (SpecTimed).                                   *)
(***************************************************************************)
\* a grace timer scheduled for room g is pending
InGrace(g) == \E i \in 1..Len(timers) : timers[i].gameId = g

\* C13: every Game Record of the Room Directory has a roster entry or is in
\* the grace window that follows the emptying of its roster.
C13_NonEmptyOrGrace ==
  \A g \in GameIds : Exists(g) => (Len(Roster(g)) >= 1 \/ InGrace(g))

(***************************************************************************)
(* Claims about the replies to join-game (SpecCalls).                      *)
(***************************************************************************)
\* positions in out of the state snapshots
Snapshots == {i \in 1..Len(out) : out[i].type = "game-state"}

\* the joiner alone got one snapshot, which lists the roster with the joiner
\* in it and carries the stored calledNumbers and the status of the room; every
\* other open roster member got one player-joined, the joiner none
JoinReplies ==
  LET c == ev.conn
      g == ev.gameId
  IN /\ Cardinality(Snapshots) = 1
     /\ \A i \in Snapshots :
          /\ out[i].to = c
          /\ out[i].gameId = g
          /\ Len(out[i].body.players) = Len(Roster(g))
          /\ \E k \in EntriesOf(Roster(g), c) :
               out[i].body.players[k].name = Roster(g)[k].name
          /\ out[i].body.calledNumbers = Called(g)
          /\ out[i].body.status = activeGames[g].status
     /\ \A d \in OpenRoster(g) \ {c} : Count("player-joined", d) = 1
     /\ Count("player-joined", c) = 0

CallAccepted(g) ==
  CallStep(g) /\ activeGames'[g].calledNumbers # activeGames[g].calledNumbers

\* C15: an accepted call-number delivers number-called to every open member of
\* the room and to the caller, member of the room or not.
C15_CallerAndRoomReceive ==
  [][\A g \in GameIds :
       CallAccepted(g) =>
         \A d \in OpenRoster(g) \cup {ev'.conn} :
           \E i \in 1..Len(out') : out'[i].to = d /\ out'[i].type = "number-called"
    ]_vars


(***************************************************************************)
(* Claims about the handling of a disconnect (SpecRoster).                 *)
(***************************************************************************)
\* positions in out' of the player-left messages to d that name c
LeftNotices(d, c) ==
  {i \in 1..Len(out') :
     out'[i].type = "player-left" /\ out'[i].to = d /\ out'[i].body.playerId = c}

\* C16: when the disconnect of a connection is handled, every room that has
\* it in its roster together with another player stays in the directory, each
\* of its other open members receives exactly one player-left naming the
\* connection, the connection receives nothing, and the connection is
\* unregistered when the handler returns.
C16_LeaveNotifies ==
  [][\A g \in GameIds :
       (/\ ev'.type = "disconnect"
        /\ ev'.conn \in RosterIds(g)
        /\ RosterIds(g) \ {ev'.conn} # {}) =>
         /\ activeGames'[g] # NoGame
         /\ \A d \in OpenRoster(g) \ {ev'.conn} :
              Cardinality(LeftNotices(d, ev'.conn)) = 1
         /\ \A i \in 1..Len(out') : out'[i].to # ev'.conn
         /\ registry'[ev'.conn] = NoSession
    ]_vars


(***************************************************************************)
(* Claims about events that name no existing room (SpecCalls).             *)
(***************************************************************************)
\* the step handled a call-number or announce-winner naming g, which has no
\* Game Record
NoSuchGameStep(g) ==
  /\ ev'.type \in {"call-number", "announce-winner"}
  /\ ev'.gameId = g
  /\ ~Exists(g)

\* C17: a call-number or announce-winner for a gameId without Game Record
\* sends one "Game not found" error to the sender and nothing to anybody else,
\* creates no room and changes no state.
C17_GameNotFound ==
  [][\A g \in GameIds :
       NoSuchGameStep(g) =>
         /\ out' = <<Msg(ev'.conn, "error", g, [message |-> "Game not found"])>>
         /\ activeGames' = activeGames
         /\ registry' = registry
    ]_vars


(***************************************************************************)
(* Malformed messages to the WebSocket server (src/unnamed/part_000).      *)
(***************************************************************************)
\* the number of a call-number payload that has none (undefined)
NoNumber == -1

\* lines 84-95: JSON.parse throws, the catch block answers the sender
WS_Unparseable(c) ==
  /\ variant = "ws"
  /\ ws[c] = "OPEN"
  /\ out' = <<Msg(c, "error", NoGameId, [message |-> "Invalid message format"])>>
  /\ ev' = Event("malformed", c, NoGameId, 0, NoName)
  /\ UNCHANGED <<variant, now, advances, ws, activeGames, registry, rooms, timers,
                 nextSweep, hist>>

\* lines 321-349 for a payload without number: undefined is pushed (334); with
\* a displayText the message is broadcast, without one number.toString() (341)
\* throws before the broadcast and the catch block of onmessage (88-93)
\* answers the sender
WS_CallNumberNoNumber(c, g, hasText) ==
  /\ variant = "ws"
  /\ ws[c] = "OPEN"
  /\ registry[c] # NoSession
  /\ ev' = Event("call-number", c, g, NoNumber, NoName)
  /\ IF ~Exists(g)
     THEN /\ out' = <<Msg(c, "error", g, [message |-> "Game not found"])>>
          /\ UNCHANGED <<activeGames, hist>>
     ELSE LET called1 == Append(activeGames[g].calledNumbers, NoNumber)
              games1 == [activeGames EXCEPT ![g] = [@ EXCEPT !.calledNumbers = called1]]
          IN /\ activeGames' = games1
             /\ out' = IF hasText
                       THEN BroadcastToGame(games1, registry, g, "number-called",
                                            [number |-> NoNumber,
                                             calledNumbers |-> called1,
                                             totalCalled |-> Len(called1)],
                                            NoConn)
                       ELSE <<Msg(c, "error", NoGameId,
                                  [message |-> "Invalid message format"])>>
             /\ CallHist(g, NoNumber, TRUE, TRUE)
  /\ UNCHANGED <<variant, now, advances, ws, registry, rooms, timers, nextSweep>>

Malformed(CS, GS) ==
  \/ \E c \in CS : WS_Unparseable(c)
  \/ \E c \in CS, g \in NameableIds \cap GS, hasText \in BOOLEAN :
       MayCall(g) /\ WS_CallNumberNoNumber(c, g, hasText)

NextMalformed ==
  \/ Transport({1, 2})
  \/ Joins({1, 2}, {"g1"}, {"ann"})
  \/ Leaves({1, 2})
  \/ Malformed({1, 2}, {"g1"})

SpecMalformed == Init /\ [][NextMalformed]_vars

\* the step handled an unparseable message or a call-number without number
MalformedStep ==
  \/ ev'.type = "malformed"
  \/ ev'.type = "call-number" /\ ev'.num = NoNumber

\* C18: a malformed message is answered by one error to its sender, nothing is
\* broadcast, and the Room Directory with all its Game Records stays as it was.
C18_MalformedRejected ==
  [][MalformedStep =>
       /\ Len(out') = 1
       /\ out'[1].type = "error"
       /\ out'[1].to = ev'.conn
       /\ activeGames' = activeGames
    ]_vars


(***************************************************************************)
(* Claims about closed recipients (SpecCalls).  readyState tells a closed  *)
(* transport; a send to an open one does not throw.                        *)
(***************************************************************************)
\* the step handled a call-number for room g that is stored and broadcast: any
\* call in the WebSocket server, a call of the host in the socket.io servers
BroadcastingCall(g) ==
  CallStep(g) /\ (variant = "ws" \/ activeGames[g].host = ev'.conn)

\* positions in out' of the number-called messages to d
CalledNotices(d) ==
  {i \in 1..Len(out') : out'[i].type = "number-called" /\ out'[i].to = d}

NextBoard ==
  \/ Transport(Conns)
  \/ Joins(Conns, {"g1"}, {"ann"})
  \/ Leaves(Conns)
  \/ Boards(Conns, {"g1"})

SpecBoard == Init /\ [][NextBoard]_vars

\* the Game Record without its activity stamp
SansActivity(game) == [game EXCEPT !.lastActivity = NoTime]

\* positions in out' of the board-updated messages to d
BoardNotices(d) ==
  {i \in 1..Len(out') : out'[i].type = "board-updated" /\ out'[i].to = d}

\* C20: an update-board from a member of a room changes nothing of the room
\* but its activity stamp, and delivers one board-updated to every other open
\* member of the room and none to the sender.
C20_BoardRelayed ==
  [][\A g \in GameIds :
       (ev'.type = "update-board" /\ ev'.gameId = g /\ ev'.conn \in RosterIds(g)) =>
         /\ activeGames'[g] # NoGame
         /\ SansActivity(activeGames'[g]) = SansActivity(activeGames[g])
         /\ \A d \in OpenRoster(g) \ {ev'.conn} : Cardinality(BoardNotices(d)) = 1
         /\ BoardNotices(ev'.conn) = {}
    ]_vars


(***************************************************************************)
(* Messages of a type the WebSocket server does not know                   *)
(* (src/unnamed/part_000, handleWebSocketMessage).                         *)
(***************************************************************************)
\* types for which the switch of lines 224-253 has no case
UnknownTypes == {"get-game-info", "verify-payment"}

\* mutant: the message is dropped without a reply
WS_UnknownTypeDropped(c, t) ==
  /\ variant = "ws"
  /\ ws[c] = "OPEN"
  /\ registry[c] # NoSession
  /\ ev' = Event(t, c, NoGameId, 0, NoName)
  /\ out' = <<>>
  /\ UNCHANGED <<variant, now, advances, ws, activeGames, registry, rooms, timers,
                 nextSweep, hist>>

\* lines 248-252: the default branch answers the sender
WS_UnknownType(c, t) ==
  /\ variant = "ws"
  /\ ws[c] = "OPEN"
  /\ registry[c] # NoSession
  /\ ev' = Event(t, c, NoGameId, 0, NoName)
  /\ out' = <<Msg(c, "error", NoGameId, [message |-> "Unknown message type: " \o t])>>
  /\ UNCHANGED <<variant, now, advances, ws, activeGames, registry, rooms, timers,
                 nextSweep, hist>>

Unknowns(CS) == \E c \in CS, t \in UnknownTypes : WS_UnknownType(c, t)

NextUnknown ==
  \/ Transport(Conns)
  \/ Joins(Conns, {"g1"}, {"ann"})
  \/ Leaves(Conns)
  \/ Unknowns(Conns)

SpecUnknown == Init /\ [][NextUnknown]_vars

HostBefore(g) == IF Exists(g) THEN activeGames[g].host ELSE NoConn

\* C22: in the servers that keep a host, a join-game into a room without host
\* (a new room, or one made by create-game) makes the joiner its host, and a
\* join-game into a room with a host leaves the host as it is.
C22_HostOnJoin ==
  [][\A g \in GameIds :
       (variant \in {"v1", "v2"} /\ ev'.type = "join-game" /\ ev'.gameId = g) =>
         activeGames'[g].host = IF HostBefore(g) = NoConn THEN ev'.conn
                                ELSE HostBefore(g)
    ]_vars


(***************************************************************************)
(* Claims about the payload of consecutive number-called messages          *)
(* (SpecCalls).  The messages of one event are all in out before the next  *)
(* event is handled, so the messages to one connection arrive in the order *)
(* of the events.                                                          *)
(***************************************************************************)
IsPrefix(s, t) == Len(s) <= Len(t) /\ s = SubSeq(t, 1, Len(s))

\* the calledNumbers carried by the number-called messages that the previous
\* step sent to d for room g
EarlierPayloads(g, d) ==
  {out[j].body.calledNumbers :
     j \in {k \in 1..Len(out) : /\ out[k].type = "number-called"
                                /\ out[k].gameId = g
                                /\ out[k].to = d}}

\* how many numbers a number-called message carries when len would be there
PayloadLen(len) ==
  IF variant = "v2" /\ len > PayloadLast THEN PayloadLast ELSE len

\* C23 as stated: of two accepted call-number events in a row on one room, the
\* payload a connection received for the earlier one is a prefix of the payload
\* it receives for the later one.
C23_EarlierIsPrefix ==
  [][\A g \in GameIds :
       CallAccepted(g) =>
         \A i \in 1..Len(out') :
           out'[i].type = "number-called" =>
             \A p \in EarlierPayloads(g, out'[i].to) :
               IsPrefix(p, out'[i].body.calledNumbers)
    ]_vars

\* C23 amended: the number-called messages of an accepted call-number carry the
\* end of the stored history, ending in the number just called: all of it, and
\* in the second socket.io server its last ten.  The payload that follows an
\* earlier one is the earlier one with the new number appended, cut in the
\* same way, so the earlier one is a prefix of it while no more than ten
\* numbers are carried.
C23_PayloadIsTail ==
  [][\A g \in GameIds :
       CallAccepted(g) =>
         \A i \in 1..Len(out') :
           out'[i].type = "number-called" =>
             LET payload == out'[i].body.calledNumbers
             IN /\ out'[i].body.number = ev'.num
                /\ payload # <<>> /\ payload[Len(payload)] = ev'.num
                /\ IsSuffix(payload, activeGames'[g].calledNumbers)
                /\ Len(payload) = PayloadLen(Len(activeGames'[g].calledNumbers))
                /\ \A p \in EarlierPayloads(g, out'[i].to) :
                     /\ IsSuffix(payload, Append(p, ev'.num))
                     /\ Len(payload) = PayloadLen(Len(p) + 1)
                     /\ Len(p) < PayloadLast => IsPrefix(p, payload)
    ]_vars

\* C23 witness: a connection of the second socket.io server received the last
\* ten of more than ten stored numbers
C23_Witness ==
  /\ variant = "v2"
  /\ ev.type = "call-number"
  /\ \E i \in 1..Len(out) :
       /\ out[i].type = "number-called"
       /\ Len(out[i].body.calledNumbers) = PayloadLast
       /\ Len(Called(out[i].gameId)) > PayloadLast
       /\ out[i].body.calledNumbers[PayloadLast] = ev.num


(***************************************************************************)
(* The "ping" handlers: the acknowledgement (socket.io) or the pong        *)
(* message (WebSocket) goes to the sender, nothing is stored.              *)
(***************************************************************************)
\* src/server.ts lines 213-215
V1_Ping(c) ==
  /\ variant = "v1"
  /\ ws[c] = "OPEN"
  /\ ev' = Event("ping", c, NoGameId, 0, NoName)
  /\ out' = <<Msg(c, "pong", NoGameId, [serverTime |-> NoTime])>>
  /\ UNCHANGED <<variant, now, advances, ws, activeGames, registry, rooms, timers,
                 nextSweep, hist>>

\* src/server.ts lines 638-645
V2_Ping(c) ==
  /\ variant = "v2"
  /\ ws[c] = "OPEN"
  /\ ev' = Event("ping", c, NoGameId, 0, NoName)
  /\ out' = <<Msg(c, "pong", NoGameId, [serverTime |-> now])>>
  /\ UNCHANGED <<variant, now, advances, ws, activeGames, registry, rooms, timers,
                 nextSweep, hist>>

\* src/unnamed/part_000 lines 241-246
WS_Ping(c) ==
  /\ variant = "ws"
  /\ ws[c] = "OPEN"
  /\ registry[c] # NoSession
  /\ ev' = Event("ping", c, NoGameId, 0, NoName)
  /\ out' = <<Msg(c, "pong", NoGameId, [serverTime |-> now])>>
  /\ UNCHANGED <<variant, now, advances, ws, activeGames, registry, rooms, timers,
                 nextSweep, hist>>

Pings(CS) ==
  \/ \E c \in CS : V1_Ping(c)
  \/ \E c \in CS : V2_Ping(c)
  \/ \E c \in CS : WS_Ping(c)

(***************************************************************************)
(* The life of one Game Record: two connections that join and leave one    *)
(* room, the first of them sending every event that reads or writes the    *)
(* record, and time.                                                       *)
(***************************************************************************)
NextLife ==
  \/ Transport({1, 2})
  \/ Joins({1, 2}, {"g1"}, {"ann"})
  \/ Leaves({1, 2})
  \/ Creates({"g1"})
  \/ Calls({1}, {"g1"}, {7})
  \/ Winners({1}, {"g1"}, {"ann"})
  \/ Chats({1}, {"g1"})
  \/ Boards({1}, {"g1"})
  \/ Timed

SpecLife == Init /\ [][NextLife]_vars

\* C24: a Game Record starts with status waiting, no called numbers and no
\* winner, and while it exists its status either stays as it is or goes from
\* waiting to finished; a finished record is never waiting again.
C24_WaitingThenFinished ==
  [][\A g \in GameIds :
       /\ (~Exists(g) /\ activeGames'[g] # NoGame) =>
            /\ activeGames'[g].status = "waiting"
            /\ activeGames'[g].calledNumbers = <<>>
            /\ activeGames'[g].winner = NoWinner
       /\ (Exists(g) /\ activeGames'[g] # NoGame) =>
            /\ activeGames'[g].status \in {"waiting", "finished"}
            /\ activeGames[g].status = "finished" =>
                 activeGames'[g].status = "finished"
    ]_vars

\* C24 witness: a player joined a finished room again, after time passed, and
\* the room is still finished
C24_Witness ==
  /\ ev.type = "join-game"
  /\ Exists(ev.gameId)
  /\ activeGames[ev.gameId].status = "finished"
  /\ joins[ev.conn] = 2
  /\ now > activeGames[ev.gameId].createdAt


(***************************************************************************)
(* Long games among all the events that leave the called numbers alone:    *)
(* two connections that join and leave one room, the first of them calling *)
(* and sending the other events.                                           *)
(***************************************************************************)
NextAppend ==
  \/ Transport({1, 2})
  \/ Joins({1, 2}, {"g1"}, {"ann"})
  \/ Leaves({1, 2})
  \/ LongCalls({1}, {"g1"})
  \/ Winners({1}, {"g1"}, {"ann"})
  \/ Chats({1}, {"g1"})
  \/ Boards({1}, {"g1"})
  \/ Pings({1})

SpecAppend == Init /\ [][NextAppend]_vars

\* the events that are not call-number
OtherEvents ==
  {"join-game", "announce-winner", "send-message", "send-chat",
   "update-board", "ping", "disconnect"}

ActivityStep(g) ==
  \/ /\ ev'.type \in {"join-game", "announce-winner", "send-message", "update-board"}
     /\ ev'.gameId = g
  \/ CallAccepted(g)
  \/ /\ ev'.type = "disconnect"
     /\ Len(activeGames'[g].players) < Len(activeGames[g].players)

NextGrace ==
  \/ Transport(Conns)
  \/ Joins(Conns, {"g1"}, {"ann"})
  \/ Leaves(Conns)
  \/ Creates({"g1"})
  \/ Timed

SpecGrace == Init /\ [][NextGrace]_vars

\* C27: a grace timer that fires while the roster of its room is not empty
\* deletes nothing, and one that fires when its room is gone changes nothing;
\* a firing changes no room other than its own.
C27_GraceRechecks ==
  [][\A g \in GameIds :
       GraceStep(g) =>
         /\ (Exists(g) /\ Len(Roster(g)) >= 1) => activeGames' = activeGames
         /\ ~Exists(g) => (activeGames' = activeGames /\ registry' = registry)
         /\ \A h \in GameIds \ {g} : activeGames'[h] = activeGames[h]
    ]_vars

\* C27 witness: a grace timer of a room fired and left it alone, a player being
\* on its roster, while another grace timer of the same room is still pending
C27_Witness ==
  /\ ev.type = "grace-timer"
  /\ Exists(ev.gameId)
  /\ Len(Roster(ev.gameId)) >= 1
  /\ \E i \in 1..Len(timers) : timers[i].gameId = ev.gameId


(***************************************************************************)
(* Claims about the rosters and the Connection Registry (SpecRoster).      *)
(***************************************************************************)
\* the room the registry gives for c, NoGameId when it gives none
CurrentGameId(c) == IF registry[c] = NoSession THEN NoGameId ELSE registry[c].gameId

\* C28: a connection is on the roster of at most one room, and it is on the
\* roster of room g exactly when the registry gives g as its room and room g
\* exists.
C28_RosterMatchesRegistry ==
  \A c \in Conns :
    /\ Cardinality({g \in GameIds : c \in RosterIds(g)}) <= 1
    /\ \A g \in GameIds :
         c \in RosterIds(g) <=> (CurrentGameId(c) = g /\ Exists(g))

\* C29: a room whose host is set has the host connection on its roster.
C29_HostOnRoster ==
  \A g \in GameIds :
    (Exists(g) /\ activeGames[g].host # NoConn) => activeGames[g].host \in RosterIds(g)


(***************************************************************************)
(* Two rooms: two connections that join and leave either room and send     *)
(* chats and calls naming either room.                                     *)
(***************************************************************************)
NextRooms ==
  \/ Transport({1, 2})
  \/ Joins({1, 2}, GameIds, {"ann"})
  \/ Leaves({1, 2})
  \/ Calls({1, 2}, GameIds, {7})
  \/ Chats({1, 2}, GameIds)

SpecRooms == Init /\ [][NextRooms]_vars

\* C30: a chat or a call-number from a connection that the registry puts in one
\* room, naming another room, delivers no chat message and no number-called
\* and leaves the calledNumbers of the named room unchanged.
C30_ConfinedToOwnRoom ==
  [][\A g \in GameIds :
       ( /\ ev'.type \in {"send-message", "send-chat", "call-number"}
         /\ ev'.gameId = g
         /\ CurrentGameId(ev'.conn) \in GameIds \ {g} ) =>
           /\ \A i \in 1..Len(out') :
                out'[i].type \notin {"new-message", "chat-message", "number-called"}
           /\ Exists(g) => activeGames'[g].calledNumbers = Called(g)
    ]_vars

=============================================================================
